---------------------------- MODULE Spec2Model ----------------------------
(***************************************************************************)
(* A model of the coordination logic of cms/server/AdminWebServer.py:      *)
(*   - AdminWebServer.authorized_rpc       (the authorization gate)        *)
(*   - AdminWebServer.add_notification and NotificationsHandler.get        *)
(*                                          (the notification queue)       *)
(*   - AddTestcaseHandler.post / storage_callback (the two-part upload)    *)
(* The server is a single-threaded tornado process: a handler or an RPC    *)
(* callback runs to completion before the next one starts, so each of them *)
(* is one atomic action.                                                   *)
(***************************************************************************)
EXTENDS Integers, Sequences, FiniteSets, TLC

VARIABLES
    now,               \* the wall clock read by time.time()
    notifications,     \* AdminWebServer.notifications
    questions,         \* the Question rows of the database
    response,          \* what the last NotificationsHandler.get wrote
    appended,          \* history: every add_notification call, with the
                       \*   number of polls completed before it
    delivered,         \* history: the notification tuples each poll returned
    pc,                \* AddTestcaseHandler request: "idle", "posted", "notfound"
    public,            \* AddTestcaseHandler.public
    successful_calls,  \* AddTestcaseHandler.successful_calls
    calls,             \* the two put_file calls: status and returned digest
    reports,           \* history: the reports handed to storage_callback
    redirects,         \* the self.redirect(...) calls of the request
    testcases,         \* task.testcases, the committed Testcase rows
    added,             \* history: the rows the request's storage_callback
                       \*   added and committed, as they were added
    raised,            \* exceptions that escaped storage_callback
    stored,            \* the digests held by the file storage service
    last_rpc,          \* the last authorized_rpc call and its decision
    single,            \* one AddStatement/AddAttachment/AddManager request
    last_int,          \* the last get_non_negative_int call and its outcome
    reeval,            \* the reevaluation requests and the submissions' state
    contest_edit,      \* the contest, and the last EditContestHandler request
    task_edit          \* the task, and the last TaskViewHandler.post request

vars == <<now, notifications, questions, response, appended, delivered, pc,
          public, successful_calls, calls, reports, redirects, testcases,
          added, raised, stored, last_rpc, single, last_int, reeval,
          contest_edit, task_edit>>

uploadVars == <<pc, public, successful_calls, calls, reports, redirects,
                testcases, added, raised, stored>>

formVars == <<reeval, contest_edit, task_edit>>

otherVars == <<single, last_int, reeval, contest_edit, task_edit>>

(***************************************************************************)
(* Bounds of the model.                                                    *)
(***************************************************************************)
MaxTime == 2
MaxAppends == 2
MaxPolls == 2
MaxShard == 1
MaxReports == 3
MaxQueued == 4

MaxLen == 3

MaxDefault == 1

MaxSubmissions == 2

MaxRequests == 2

(***************************************************************************)
(* Values.                                                                 *)
(***************************************************************************)
None == "<None>"

ExpectedTags == {"input", "output"}

Digests == {"d1", "d2"}

RpcErrors == {"disk full"}

ConnectionFailed == "Connection failed."

TestcaseFailedSubject == "Testcase storage failed"

OtherSubject == "Invalid field"

OtherText == "Submission format not recognized."

TaskPage == "/task/1"

AddTestcasePage == "/add_testcase/1"

Count(s, x) == Cardinality({i \in 1..Len(s) : s[i] = x})

(***************************************************************************)
(* AdminWebServer.add_notification: self.notifications.append(...)         *)
(***************************************************************************)
\* Mutant of add_notification: the notification is put in front.
add_notification_front(q, timestamp, subject, text) ==
    <<<<timestamp, subject, text>>>> \o q

add_notification(q, timestamp, subject, text) ==
    Append(q, <<timestamp, subject, text>>)

\* A call of add_notification on the server state carried in w, with its
\* history entry.
Notify(w, timestamp, subject, text) ==
    [w EXCEPT !.notifications = add_notification(@, timestamp, subject, text),
              !.appended = Append(@, [n |-> <<timestamp, subject, text>>,
                                      epoch |-> Len(delivered)])]

(***************************************************************************)
(* AddTestcaseHandler.storage_callback                                     *)
(***************************************************************************)
\* Mutant of RecordSuccess: the result is stored under both tags.
RecordSuccess_both(sc, plus, data) ==
    [k \in DOMAIN sc \cup ExpectedTags |-> IF k \in ExpectedTags THEN data ELSE sc[k]]

\* self.successful_calls[plus] = data
RecordSuccess(sc, plus, data) ==
    [k \in DOMAIN sc \cup {plus} |-> IF k = plus THEN data ELSE sc[k]]

\* Mutant of JoinComplete: the threshold is one too high.
JoinComplete_three(sc) == Cardinality(DOMAIN sc) >= 3

\* len(self.successful_calls) >= 2
JoinComplete(sc) == Cardinality(DOMAIN sc) >= 2

\* Mutant of NewTestcase: input and output are swapped.
NewTestcase_swapped(sc, num, pub) ==
    [input |-> sc["output"], output |-> sc["input"], num |-> num, public |-> pub]

\* Testcase(successful_calls["input"], successful_calls["output"],
\*          len(self.task.testcases), self.public, self.task)
NewTestcase(sc, num, pub) ==
    [input |-> sc["input"], output |-> sc["output"], num |-> num, public |-> pub]

\* self.redirect(url): the call is recorded; tornado's RequestHandler.redirect
\* finishes the request, and raises an Exception when the request was
\* already answered ("Cannot redirect after headers have been written").
Redirect(w, url) ==
    [w EXCEPT !.redirects = Append(@, url),
              !.raised = IF w.redirects # <<>> THEN Append(@, "Exception") ELSE @]

\* BaseHandler.finish closes the SQL session before it finishes the
\* request, and every redirect of the handler finishes the request: once
\* the handler has redirected, self.task is detached from its session and
\* a load through it (SQLAlchemy's documented behaviour) raises.
Detached(w) == w.redirects # <<>>

\* The else branch: add_notification(...); redirect("/add_testcase/..")
FailureAction(w, error, time) ==
    Redirect(Notify(w, time, TestcaseFailedSubject, error), AddTestcasePage)

\* Mutant of SuccessAction: the request is not answered after the commit.
SuccessAction_noredirect(w) ==
    IF ~(ExpectedTags \subseteq DOMAIN w.successful_calls)
    THEN [w EXCEPT !.raised = Append(@, "KeyError")]
    ELSE IF Detached(w)
    THEN [w EXCEPT !.raised = Append(@, "DetachedInstanceError")]
    ELSE [w EXCEPT !.testcases = Append(@, NewTestcase(
                                      w.successful_calls, Len(@), w.public)),
                   !.added = Append(@, NewTestcase(
                                      w.successful_calls, Len(w.testcases),
                                      w.public))]

\* The inner if branch: add the Testcase, commit, redirect("/task/..").
\* The arguments of Testcase(...) are evaluated in order: reading a missing
\* key of successful_calls raises KeyError, and then len(self.task.testcases)
\* loads the task's testcases, which raises DetachedInstanceError once the
\* session is closed; either way nothing is added and nothing redirects.
SuccessAction(w) ==
    IF ~(ExpectedTags \subseteq DOMAIN w.successful_calls)
    THEN [w EXCEPT !.raised = Append(@, "KeyError")]
    ELSE IF Detached(w)
    THEN [w EXCEPT !.raised = Append(@, "DetachedInstanceError")]
    ELSE Redirect([w EXCEPT !.testcases = Append(@, NewTestcase(
                                      w.successful_calls, Len(@), w.public)),
                            !.added = Append(@, NewTestcase(
                                      w.successful_calls, Len(w.testcases),
                                      w.public))],
                  TaskPage)

storage_callback(w, data, plus, error, time) ==
    IF error = None
    THEN LET w1 == [w EXCEPT !.successful_calls = RecordSuccess(@, plus, data)]
         IN  IF JoinComplete(w1.successful_calls) THEN SuccessAction(w1) ELSE w1
    ELSE FailureAction(w, error, time)

\* The state storage_callback reads and writes, as one record.
World ==
    [successful_calls |-> successful_calls, public |-> public,
     testcases |-> testcases, added |-> added, redirects |-> redirects,
     raised |-> raised,
     notifications |-> notifications, appended |-> appended]

Becomes(w) ==
    /\ successful_calls' = w.successful_calls
    /\ public' = w.public
    /\ testcases' = w.testcases
    /\ added' = w.added
    /\ redirects' = w.redirects
    /\ raised' = w.raised
    /\ notifications' = w.notifications
    /\ appended' = w.appended

(***************************************************************************)
(* AddTestcaseHandler.post                                                 *)
(***************************************************************************)
\* One put_file call of post: when it returns False the callback runs at
\* once with error="Connection failed." and no data and no tag.
PutFile(w, sent) ==
    IF sent THEN w ELSE storage_callback(w, None, None, ConnectionFailed, now)

CallAfterPut(sent) ==
    IF sent THEN [status |-> "pending", data |-> None]
            ELSE [status |-> "refused", data |-> None]

\* The reports post makes itself: storage_callback(None, None, error=...)
\* for each refused call, with no tag.
SyncReports(sentInput, sentOutput) ==
    (IF sentInput THEN <<>> ELSE <<[tag |-> None, ok |-> FALSE]>>)
    \o (IF sentOutput THEN <<>> ELSE <<[tag |-> None, ok |-> FALSE]>>)

Post(pub, sentInput, sentOutput) ==
    /\ pc = "idle"
    /\ pc' = "posted"
    /\ LET w0 == [World EXCEPT !.public = pub, !.successful_calls = <<>>]
           w1 == PutFile(w0, sentInput)
           w2 == PutFile(w1, sentOutput)
       IN  Becomes(w2)
    /\ calls' = [input |-> CallAfterPut(sentInput),
                 output |-> CallAfterPut(sentOutput)]
    /\ reports' = reports \o SyncReports(sentInput, sentOutput)
    /\ UNCHANGED <<now, questions, response, delivered, stored, last_rpc>>
    /\ UNCHANGED otherVars

\* Task.get_from_id returned None: HTTPError(404), nothing else happens.
PostNotFound ==
    /\ pc = "idle"
    /\ pc' = "notfound"
    /\ UNCHANGED <<now, notifications, questions, response, appended,
                   delivered, public, successful_calls, calls, reports,
                   redirects, testcases, added, raised, stored, last_rpc>>
    /\ UNCHANGED otherVars

(***************************************************************************)
(* The response of the file storage service to one put_file call, handed   *)
(* to storage_callback by rpc_callback.                                    *)
(***************************************************************************)
StoreSucceeds(tag, digest) ==
    /\ pc = "posted"
    /\ calls[tag].status = "pending"
    /\ calls' = [calls EXCEPT ![tag] = [status |-> "ok", data |-> digest]]
    /\ stored' = stored \cup {digest}
    /\ reports' = Append(reports, [tag |-> tag, ok |-> TRUE])
    /\ Becomes(storage_callback(World, digest, tag, None, now))
    /\ UNCHANGED <<now, questions, response, delivered, pc, last_rpc>>
    /\ UNCHANGED otherVars

StoreFails(tag, error) ==
    /\ pc = "posted"
    /\ calls[tag].status = "pending"
    /\ calls' = [calls EXCEPT ![tag] = [status |-> "error", data |-> None]]
    /\ reports' = Append(reports, [tag |-> tag, ok |-> FALSE])
    /\ Becomes(storage_callback(World, None, tag, error, now))
    /\ UNCHANGED <<now, questions, response, delivered, pc, stored, last_rpc>>
    /\ UNCHANGED otherVars

(***************************************************************************)
(* AddStatementHandler, AddAttachmentHandler, AddManagerHandler: uploads   *)
(* of one file.                                                            *)
(***************************************************************************)
Kinds == {"statement", "attachment", "manager"}

\* File names as <<stem, extension>>.
Filenames == {<<"statement", ".pdf">>, <<"statement", ".txt">>}

\* filename.endswith(suffix)
EndsWith(filename, suffix) == filename[Len(filename)] = suffix

AddStatementPage == "/add_statement/1"

AddManagerPage == "/add_manager/1"

\* Mutant of AddStatement_storage_callback: an error is not notified.
AddStatement_storage_callback_silent(w, data, plus, error, time) ==
    IF error = None
    THEN Redirect([w EXCEPT !.committed = Append(@,
                      [kind |-> "statement", digest |-> data])], TaskPage)
    ELSE Redirect(w, AddStatementPage)

AddStatement_storage_callback(w, data, plus, error, time) ==
    IF error = None
    THEN Redirect([w EXCEPT !.committed = Append(@,
                      [kind |-> "statement", digest |-> data])], TaskPage)
    ELSE Redirect(Notify(w, time, "Task statement storage failed", error),
                  AddStatementPage)

AddAttachment_storage_callback(w, data, plus, error, time) ==
    IF error = None
    THEN Redirect([w EXCEPT !.committed = Append(@,
                      [kind |-> "attachment", digest |-> data])], TaskPage)
    ELSE Redirect(Notify(w, time, "Attachment storage failed", error),
                  AddStatementPage)

AddManager_storage_callback(w, data, plus, error, time) ==
    IF error = None
    THEN Redirect([w EXCEPT !.committed = Append(@,
                      [kind |-> "manager", digest |-> data])], TaskPage)
    ELSE Redirect(Notify(w, time, "Manager storage failed", error),
                  AddManagerPage)

\* The storage_callback of the handler class of the request.
SingleCallback(kind, w, data, plus, error, time) ==
    CASE kind = "statement" ->
            AddStatement_storage_callback(w, data, plus, error, time)
      [] kind = "attachment" ->
            AddAttachment_storage_callback(w, data, plus, error, time)
      [] kind = "manager" ->
            AddManager_storage_callback(w, data, plus, error, time)

SingleWorld ==
    [redirects |-> single.redirects, raised |-> single.raised,
     committed |-> single.committed, notifications |-> notifications,
     appended |-> appended]

SingleBecomes(w, kind, status, data) ==
    /\ single' = [kind |-> kind, status |-> status, data |-> data,
                  redirects |-> w.redirects, raised |-> w.raised,
                  committed |-> w.committed]
    /\ notifications' = w.notifications
    /\ appended' = w.appended

\* post of the three handlers; only AddStatementHandler checks the name.
PostSingle(kind, filename, sent) ==
    /\ single.status = "idle"
    /\ IF kind = "statement" /\ ~EndsWith(filename, ".pdf")
       THEN SingleBecomes(
                Redirect(Notify(SingleWorld, now, "Invalid task statement",
                                "The task statement must be a .pdf file."),
                         AddStatementPage),
                kind, "rejected", None)
       ELSE IF sent
       THEN SingleBecomes(SingleWorld, kind, "pending", None)
       ELSE SingleBecomes(
                SingleCallback(kind, SingleWorld, None, None,
                               ConnectionFailed, now),
                kind, "refused", None)
    /\ UNCHANGED <<now, questions, response, delivered, last_rpc, last_int,
                   reeval, contest_edit, task_edit>>
    /\ UNCHANGED uploadVars

\* Task.get_from_id returned None: HTTPError(404).
PostSingleNotFound(kind) ==
    /\ single.status = "idle"
    /\ single' = [single EXCEPT !.kind = kind, !.status = "notfound"]
    /\ UNCHANGED <<now, notifications, questions, response, appended,
                   delivered, last_rpc, last_int,
                   reeval, contest_edit, task_edit>>
    /\ UNCHANGED uploadVars

SingleSucceeds(digest) ==
    /\ single.status = "pending"
    /\ SingleBecomes(
           SingleCallback(single.kind, SingleWorld, digest, None, None, now),
           single.kind, "ok", digest)
    /\ stored' = stored \cup {digest}
    /\ UNCHANGED <<now, questions, response, delivered, last_rpc, last_int, pc, public, successful_calls, calls, reports,
                   redirects, testcases, added, raised>>
    /\ UNCHANGED formVars

SingleFails(error) ==
    /\ single.status = "pending"
    /\ SingleBecomes(
           SingleCallback(single.kind, SingleWorld, None, None, error, now),
           single.kind, "error", None)
    /\ UNCHANGED <<now, questions, response, delivered, last_rpc, last_int,
                   reeval, contest_edit, task_edit>>
    /\ UNCHANGED uploadVars

(***************************************************************************)
(* A put_file call that was sent and gets no response.  post passes a      *)
(* callback and a tag to put_file and nothing else: no timeout is set and  *)
(* no timer is started, so nothing reports such a call to the handler.     *)
(***************************************************************************)
NoResponse(tag) ==
    /\ pc = "posted"
    /\ calls[tag].status = "pending"
    /\ calls' = [calls EXCEPT ![tag] = [status |-> "unanswered", data |-> None]]
    /\ UNCHANGED <<now, notifications, questions, response, appended,
                   delivered, pc, public, successful_calls, reports,
                   redirects, testcases, added, raised, stored, last_rpc>>
    /\ UNCHANGED otherVars

(***************************************************************************)
(* BaseHandler.get_non_negative_int.  Strings are sequences of characters; *)
(* an optional integer is a record that is None or carries an int.         *)
(***************************************************************************)
Chars == {"0", "1", "-", "+", "x"}

DigitChars == <<"0", "1", "2", "3", "4", "5", "6", "7", "8", "9">>

IsDigit(c) == \E i \in 1..Len(DigitChars) : DigitChars[i] = c

DigitValue(c) == (CHOOSE i \in 1..Len(DigitChars) : DigitChars[i] = c) - 1

NoneString == <<"N", "o", "n", "e">>

NoneValue == [none |-> TRUE, int |-> 0]

IntValue(n) == [none |-> FALSE, int |-> n]

RECURSIVE Decimal(_)
Decimal(n) ==
    IF n < 10 THEN <<DigitChars[n + 1]>>
    ELSE Decimal(n \div 10) \o <<DigitChars[(n % 10) + 1]>>

\* repr(default) of None or of an int
Repr(default) ==
    IF default.none THEN NoneString
    ELSE IF default.int < 0 THEN <<"-">> \o Decimal(0 - default.int)
    ELSE Decimal(default.int)

RECURSIVE DigitsValue(_)
DigitsValue(ds) ==
    IF ds = <<>> THEN 0
    ELSE 10 * DigitsValue(SubSeq(ds, 1, Len(ds) - 1)) + DigitValue(ds[Len(ds)])

Unsigned(str) ==
    IF str # <<>> /\ str[1] \in {"-", "+"} THEN Tail(str) ELSE str

\* int(str) succeeds: an optional sign and at least one decimal digit.
IsIntLiteral(str) ==
    /\ Unsigned(str) # <<>>
    /\ \A i \in 1..Len(Unsigned(str)) : IsDigit(Unsigned(str)[i])

\* int(str) for a literal
IntOf(str) ==
    IF str[1] = "-" THEN 0 - DigitsValue(Unsigned(str))
    ELSE DigitsValue(Unsigned(str))

\* self.get_argument(name, default): the last value sent, or the default.
get_argument(arguments, name, default) ==
    IF name \in DOMAIN arguments THEN arguments[name] ELSE default

Returns(value) == [outcome |-> "return", value |-> value]

Raises(exception) == [outcome |-> exception, value |-> NoneValue]

\* Mutant of get_non_negative_int: the sign is not checked.
get_non_negative_int_signed(arguments, argument_name, default, allow_empty) ==
    LET argument == get_argument(arguments, argument_name, Repr(default))
    IN  IF allow_empty /\ (argument = <<>> \/ argument = NoneString)
        THEN Returns(NoneValue)
        ELSE IF ~IsIntLiteral(argument) THEN Raises("ValueError")
        ELSE Returns(IntValue(IntOf(argument)))

get_non_negative_int(arguments, argument_name, default, allow_empty) ==
    LET argument == get_argument(arguments, argument_name, Repr(default))
    IN  IF allow_empty /\ (argument = <<>> \/ argument = NoneString)
        THEN Returns(NoneValue)
        ELSE IF ~IsIntLiteral(argument) THEN Raises("ValueError")
        ELSE IF IntOf(argument) < 0 THEN Raises("ValueError")
        ELSE Returns(IntValue(IntOf(argument)))

RECURSIVE StringsOfLen(_)
StringsOfLen(n) ==
    IF n = 0 THEN {<<>>}
    ELSE {Append(str, c) : str \in StringsOfLen(n - 1), c \in Chars}

\* The values a request can carry for the argument.
Strings == UNION {StringsOfLen(n) : n \in 0..MaxLen} \cup {NoneString}

\* The request's arguments: the argument is missing, or sent with a value.
Requests ==
    {[name \in {} |-> <<>>]}
        \cup {[name \in {"token_initial"} |-> str] : str \in Strings}

\* The defaults the handlers pass: None, 0, or a stored (non-negative) value.
Defaults == {NoneValue} \cup {IntValue(n) : n \in -MaxDefault..MaxDefault}

\* One call of get_non_negative_int by a handler.
GetNonNegativeInt(arguments, default, allow_empty) ==
    /\ ~last_int.called
    /\ last_int' = [called |-> TRUE, arguments |-> arguments,
                    default |-> default, allow_empty |-> allow_empty,
                    result |-> get_non_negative_int(arguments, "token_initial",
                                                    default, allow_empty)]
    /\ UNCHANGED <<now, notifications, questions, response, appended,
                   delivered, last_rpc, single, reeval, contest_edit, task_edit>>
    /\ UNCHANGED uploadVars

(***************************************************************************)
(* SubmissionReevaluateHandler, UserReevaluateHandler and                  *)
(* TaskReevaluateHandler.  A request runs without interruption; the order  *)
(* of its calls is kept in log.                                            *)
(***************************************************************************)
SubmissionIds == 1..MaxSubmissions

RECURSIVE DistinctSeqs(_)
DistinctSeqs(ids) ==
    {<<>>} \cup UNION {{<<id>> \o rest : rest \in DistinctSeqs(ids \ {id})} :
                          id \in ids}

\* user.submissions, task.submissions: lists of distinct submissions.
SubmissionLists == DistinctSeqs(SubmissionIds)

NoReevaluation ==
    [requests |-> 0, handler |-> None, status |-> "idle", subs |-> <<>>,
     invalid |-> {}, dirty |-> {}, log |-> <<>>, redirects |-> <<>>,
     raised |-> <<>>]

Event(op, id) == [op |-> op, id |-> id]

\* s.invalid(): the submission is invalidated in the session.
Invalidate(r, id) ==
    [r EXCEPT !.dirty = @ \cup {id}, !.log = Append(@, Event("invalid", id))]

\* self.sql_session.commit()
CommitSession(r) ==
    [r EXCEPT !.invalid = @ \cup r.dirty, !.dirty = {},
              !.log = Append(@, Event("commit", 0))]

\* self.application.service.ES.new_submission(submission_id=id)
NewSubmission(r, id) ==
    [r EXCEPT !.log = Append(@, Event("new_submission", id))]

\* Mutant of ReevaluateOne: the RPC is issued before the commit.
ReevaluateOne_early(r, id) ==
    CommitSession(NewSubmission(Invalidate(r, id), id))

\* The three statements on one submission, in the order of the code.
ReevaluateOne(r, id) ==
    NewSubmission(CommitSession(Invalidate(r, id)), id)

\* for s in submissions: ...
RECURSIVE ReevaluateAll(_, _)
ReevaluateAll(r, subs) ==
    IF subs = <<>> THEN r
    ELSE ReevaluateAll(ReevaluateOne(r, Head(subs)), Tail(subs))

\* self.redirect(url) at the end of get
ReevaluateRedirect(r, url) ==
    [Redirect(r, url) EXCEPT !.log = Append(@, Event("redirect", 0)),
                             !.status = "done"]

\* A new request: a new handler object, the same database.
NewReevaluation(handler, subs) ==
    [NoReevaluation EXCEPT !.requests = reeval.requests + 1,
                           !.handler = handler,
                           !.subs = subs,
                           !.invalid = reeval.invalid]

ReevaluationNotFound(handler) ==
    /\ reeval.requests < MaxRequests
    /\ reeval' = [NewReevaluation(handler, <<>>) EXCEPT !.status = "notfound"]
    /\ UNCHANGED <<now, notifications, questions, response, appended,
                   delivered, last_rpc, single, last_int,
                   contest_edit, task_edit>>
    /\ UNCHANGED uploadVars

SubmissionReevaluate(id) ==
    /\ reeval.requests < MaxRequests
    /\ reeval' = ReevaluateRedirect(
                     ReevaluateOne(NewReevaluation("submission", <<id>>), id),
                     <<"/submission/", id>>)
    /\ UNCHANGED <<now, notifications, questions, response, appended,
                   delivered, last_rpc, single, last_int,
                   contest_edit, task_edit>>
    /\ UNCHANGED uploadVars

UserReevaluate(subs) ==
    /\ reeval.requests < MaxRequests
    /\ reeval' = ReevaluateRedirect(
                     ReevaluateAll(NewReevaluation("user", subs), subs),
                     <<"/user/", 1>>)
    /\ UNCHANGED <<now, notifications, questions, response, appended,
                   delivered, last_rpc, single, last_int,
                   contest_edit, task_edit>>
    /\ UNCHANGED uploadVars

TaskReevaluate(subs) ==
    /\ reeval.requests < MaxRequests
    /\ reeval' = ReevaluateRedirect(
                     ReevaluateAll(NewReevaluation("task", subs), subs),
                     <<"/task/", 1>>)
    /\ UNCHANGED <<now, notifications, questions, response, appended,
                   delivered, last_rpc, single, last_int,
                   contest_edit, task_edit>>
    /\ UNCHANGED uploadVars

(***************************************************************************)
(* EditContestHandler.post.  Argument values are sequences: texts read by  *)
(* int() are sequences of characters, a date text is kept whole as the     *)
(* one element of its sequence, and "" is the empty sequence.              *)
(***************************************************************************)
Absent == <<"absent">>

\* The request arguments of a form: the fields that were sent.
Sent(form) == [name \in {k \in DOMAIN form : form[k] # Absent} |-> form[name]]

Date1 == <<"01/01/2012 00:00:00">>

Date2 == <<"02/01/2012 00:00:00">>

\* time.strptime(text, "%d/%m/%Y %H:%M:%S") succeeds
IsDate(text) == text \in {Date1, Date2}

\* time.mktime(time.strptime(text, "%d/%m/%Y %H:%M:%S")), in days
Mktime(text) == IF text = Date1 THEN 1 ELSE 2

TokenFields ==
    <<"token_initial", "token_max", "token_total", "token_min_interval",
      "token_gen_time", "token_gen_number">>

\* allow_empty of the call for each field: False for token_initial only.
TokenAllowEmpty(field) == field # "token_initial"

\* The contest as stored before the request.
StoredContest ==
    [name |-> <<"o">>, description |-> <<"o">>,
     token_initial |-> IntValue(0), token_max |-> NoneValue,
     token_total |-> NoneValue, token_min_interval |-> NoneValue,
     token_gen_time |-> NoneValue, token_gen_number |-> IntValue(1),
     start |-> 1, stop |-> 2]

ContestForms ==
    [name : {Absent, <<>>, <<"c">>},
     description : {Absent, <<"d">>},
     token_initial : {Absent, <<"1">>, <<"x">>},
     token_max : {Absent, <<>>, <<"-", "1">>},
     token_total : {Absent},
     token_min_interval : {Absent},
     token_gen_time : {Absent},
     token_gen_number : {Absent, <<"1", "0">>},
     start : {Absent, Date1, Date2, <<"2012-01-01">>},
     end : {Date1, Date2, <<>>}]

\* The six get_non_negative_int calls of the first try block.
TokenResults(arguments, contest) ==
    [i \in 1..Len(TokenFields) |->
        get_non_negative_int(arguments, TokenFields[i], contest[TokenFields[i]],
                             TokenAllowEmpty(TokenFields[i]))]

\* A validation failed: add_notification(...), redirect, return.
ContestRejected(w, failed, time, subject, text) ==
    [Redirect(Notify(w, time, subject, text), <<"/contest/", 1>>)
        EXCEPT !.failed = failed, !.status = "rejected"]

\* The assignments to self.contest, the commit and the redirect.
ContestUpdated(w, arguments, tokens) ==
    LET edited == [name |-> get_argument(arguments, "name", <<>>),
                   description |-> get_argument(arguments, "description", <<None>>),
                   token_initial |-> tokens[1].value,
                   token_max |-> tokens[2].value,
                   token_total |-> tokens[3].value,
                   token_min_interval |-> tokens[4].value,
                   token_gen_time |-> tokens[5].value,
                   token_gen_number |-> tokens[6].value,
                   start |-> Mktime(get_argument(arguments, "start", <<>>)),
                   stop |-> Mktime(get_argument(arguments, "end", <<>>))]
    IN  [Redirect([w EXCEPT !.contest = edited,
                            !.commits = Append(@, edited)],
                  <<"/contest/", 1>>)
            EXCEPT !.status = "done"]

\* post after retrieve_contest found the contest.  In the branch for
\* start > stop the argument repr(e) is evaluated first: e is a local name
\* bound only by the except clauses, which both return, so the evaluation
\* raises UnboundLocalError and neither call is made.
edit_contest_post(w, arguments, time) ==
    LET tokens == TokenResults(arguments, w.contest)
        start == get_argument(arguments, "start", <<>>)
        end == get_argument(arguments, "end", <<>>)
    IN  IF get_argument(arguments, "name", <<>>) = <<>>
        THEN ContestRejected(w, "name", time, "No contest name specified", "")
        ELSE IF \E i \in 1..Len(tokens) : tokens[i].outcome # "return"
        THEN ContestRejected(w, "token", time, "Invalid token field(s).",
                             "ValueError")
        ELSE IF ~IsDate(start) \/ ~IsDate(end)
        THEN ContestRejected(w, "date", time, "Invalid date(s).", "ValueError")
        ELSE IF Mktime(start) > Mktime(end)
        THEN [w EXCEPT !.failed = "order", !.status = "raised",
                       !.raised = Append(@, "UnboundLocalError")]
        ELSE ContestUpdated(w, arguments, tokens)

NoContestEdit ==
    [status |-> "idle", arguments |-> <<>>, failed |-> None,
     contest |-> StoredContest, commits |-> <<>>, redirects |-> <<>>,
     raised |-> <<>>]

EditContestPost(form) ==
    /\ contest_edit.status = "idle"
    /\ LET w0 == [status |-> "idle", arguments |-> Sent(form), failed |-> None,
                  contest |-> contest_edit.contest, commits |-> <<>>,
                  redirects |-> <<>>, raised |-> <<>>,
                  notifications |-> notifications, appended |-> appended]
       IN  \E w1 \in {edit_contest_post(w0, Sent(form), now)} :
               /\ contest_edit' = [k \in DOMAIN NoContestEdit |-> w1[k]]
               /\ notifications' = w1.notifications
               /\ appended' = w1.appended
    /\ UNCHANGED <<now, questions, response, delivered, last_rpc, single,
                   last_int, reeval, task_edit>>
    /\ UNCHANGED uploadVars

\* retrieve_contest: Contest.get_from_id returned None, HTTPError(404).
EditContestNotFound ==
    /\ contest_edit.status = "idle"
    /\ contest_edit' = [contest_edit EXCEPT !.status = "notfound"]
    /\ UNCHANGED <<now, notifications, questions, response, appended,
                   delivered, last_rpc, single, last_int, reeval,
                   task_edit>>
    /\ UNCHANGED uploadVars

(***************************************************************************)
(* TaskViewHandler.post.  The handler is followed statement by statement   *)
(* on a record w; w.status leaves "running" when post returns or raises.   *)
(***************************************************************************)
\* The task as stored before the request (one format element).
StoredTask ==
    [name |-> <<"o">>, title |-> <<"o">>, time_limit |-> IntValue(1),
     memory_limit |-> IntValue(1), token_initial |-> IntValue(0),
     token_max |-> NoneValue, token_total |-> NoneValue,
     token_min_interval |-> NoneValue, token_gen_time |-> NoneValue,
     token_gen_number |-> NoneValue,
     task_type |-> <<"TaskTypeBatch">>, task_type_parameters |-> <<>>,
     score_type |-> <<>>, score_parameters |-> <<>>,
     submission_format |-> <<"o">>]

TaskIntFields == <<"memory_limit">> \o TokenFields

\* "testcase_%s_public" % testcase.num
TestcasePublicNames ==
    <<"testcase_0_public", "testcase_1_public", "testcase_2_public">>

PublicArgument(num) == TestcasePublicNames[num + 1]

\* for testcase in self.task.testcases: testcase.public =
\*     self.get_argument("testcase_%s_public" % testcase.num, False) != False
PublishTestcases(rows, arguments) ==
    [i \in 1..Len(rows) |->
        [rows[i] EXCEPT !.public =
            PublicArgument(rows[i].num) \in DOMAIN arguments]]

\* allow_empty of the call for each field of the second try block.
TaskAllowEmpty(field) == field \notin {"memory_limit", "token_initial"}

\* simplejson.dumps of a list of texts
Dumps(list) == <<"json", list>>

\* The JSON texts the form can carry, with the list simplejson.loads
\* returns; loads raises for any other text.
JsonLists == {<<"json", <<"o">>>>, <<"json", <<"a", "b">>>>}

Loads(text) == text[2]

TaskForms ==
    [name : {<<"n">>},
     title : {Absent},
     time_limit : {Absent, <<"-", "1">>, <<"x">>},
     memory_limit : {<<"0">>, <<"1", "0">>},
     token_initial : {Absent, <<"x">>},
     token_max : {Absent},
     token_total : {Absent},
     token_min_interval : {Absent},
     token_gen_time : {Absent},
     token_gen_number : {Absent},
     testcase_0_public : {Absent, <<"on">>},
     task_type : {Absent, <<"TaskTypeBatch">>, <<"TaskTypeOutputOnly">>},
     Batch_evaluation : {Absent, <<"grad">>},
     Batch_use_files : {Absent},
     OutputOnly_evaluation : {<<"comp">>, <<"grad">>},
     score_type : {Absent},
     score_parameters : {Absent},
     submission_format : {Absent, <<"json", <<"o">>>>,
                          <<"json", <<"a", "b">>>>, <<"{">>}]

\* self.write(text); self.finish(); return.  finish closes the session.
WriteAndFinish(w, text) ==
    [w EXCEPT !.written = Append(@, text), !.closed = TRUE,
              !.status = "finished"]

\* self.redirect(url): finish closes the session; a second redirect raises
\* and ends post.
TaskRedirect(w, url) ==
    [Redirect(w, url) EXCEPT !.closed = TRUE,
                             !.status = IF w.redirects # <<>> THEN "raised"
                                        ELSE w.status]

\* add_notification(time.time(), "Invalid field", text)
InvalidField(w, time, text) == Notify(w, time, OtherSubject, text)

\* float(time_limit), the range check, and the except TypeError clause.
\* float() of a text that is no number raises ValueError, which is not
\* caught.  Only integer texts are sent.
TaskTimeLimit(w, arguments) ==
    LET time_limit == get_argument(arguments, "time_limit",
                                   Repr(w.task.time_limit))
    IN  IF ~IsIntLiteral(time_limit)
        THEN [w EXCEPT !.raised = Append(@, "ValueError"), !.status = "raised"]
        ELSE IF IntOf(time_limit) < 0
        THEN WriteAndFinish(w, "Invalid time limit.")
        ELSE [w EXCEPT !.task.time_limit = IntValue(IntOf(time_limit))]

\* The second try block: every field is assigned as soon as it is read.
RECURSIVE TaskInts(_, _, _)
TaskInts(w, arguments, fields) ==
    IF fields = <<>> THEN w
    ELSE LET field == Head(fields)
             result == get_non_negative_int(arguments, field, w.task[field],
                                            TaskAllowEmpty(field))
         IN  IF result.outcome # "return"
             THEN WriteAndFinish(w, "Invalid fields.")
             ELSE IF field = "memory_limit" /\ result.value.int = 0
             THEN WriteAndFinish([w EXCEPT !.task[field] = result.value],
                                 "Invalid fields.")
             ELSE CHOOSE r \in {TaskInts(w1, arguments, Tail(fields)) :
                                   w1 \in {[w EXCEPT !.task[field] = result.value]}} :
                      TRUE

\* The if / elif / else on task_type.  The branches for an unrecognized
\* evaluation do not return; the else branch reads contest_id, a name that
\* does not exist in post, and raises NameError after the notification.
TaskType(w, arguments, time) ==
    LET task_type == get_argument(arguments, "task_type", <<>>)
        w1 == [w EXCEPT !.task.task_type = task_type]
        batch_evaluation == get_argument(arguments, "Batch_evaluation", <<>>)
        batch_use_files ==
            IF "Batch_use_files" \in DOMAIN arguments THEN "file" ELSE "nofile"
        oo_evaluation == get_argument(arguments, "OutputOnly_evaluation", <<>>)
    IN  IF task_type = <<"TaskTypeBatch">>
        THEN [(IF batch_evaluation \notin {<<"diff">>, <<"comp">>, <<"grad">>}
               THEN TaskRedirect(InvalidField(w1, time,
                                     "Output evaluation not recognized."),
                                 TaskPage)
               ELSE w1)
                 EXCEPT !.parameters = <<batch_evaluation, batch_use_files>>]
        ELSE IF task_type = <<"TaskTypeOutputOnly">>
        THEN [(IF oo_evaluation \notin {<<"diff">>, <<"comp">>}
               THEN TaskRedirect(InvalidField(w1, time,
                                     "Output evaluation not recognized."),
                                 TaskPage)
               ELSE w1)
                 EXCEPT !.parameters = <<oo_evaluation>>]
        ELSE [InvalidField(w1, time, "Task type not recognized.")
                 EXCEPT !.raised = Append(@, "NameError"), !.status = "raised"]

\* self.sql_session.rollback(): nothing is committed, and rollback expires
\* every object of the session (SQLAlchemy's documented behaviour), so the
\* attributes assigned so far are discarded and the task reads as stored.
TaskRollback(w) == [w EXCEPT !.task = StoredTask, !.testcases = testcases]

\* The submission_format block. The guard compares a text that is neither
\* "" nor "[]" with the task's stored format: that loads
\* self.task.submission_format, which raises DetachedInstanceError when an
\* earlier redirect has closed the session. A text that loads cannot read
\* ends in rollback, notification, redirect and return.
TaskFormat(w, arguments, time) ==
    LET submission_format == get_argument(arguments, "submission_format", <<>>)
    IN  IF submission_format \in {<<>>, <<"[]">>}
        THEN w
        ELSE IF w.closed
        THEN [w EXCEPT !.status = "raised",
                       !.raised = Append(@, "DetachedInstanceError")]
        ELSE IF submission_format = Dumps(w.task.submission_format)
        THEN w
        ELSE IF submission_format \in JsonLists
        THEN [w EXCEPT !.task.submission_format = Loads(submission_format)]
        ELSE LET w1 == TaskRedirect(
                           InvalidField(TaskRollback(w), time,
                               "Submission format not recognized."),
                           TaskPage)
             IN  [w1 EXCEPT !.status = IF w1.status = "running"
                                       THEN "rejected" ELSE w1.status]

\* self.sql_session.commit(); self.redirect("/task/%s" % self.task.id).
\* A commit is recorded with the state of the session: after a redirect
\* finish has closed it, and the objects are no longer attached to it.
TaskCommit(w) ==
    LET w1 == TaskRedirect([w EXCEPT !.commits = Append(@,
                                 [open |-> ~w.closed, task |-> w.task,
                                  testcases |-> w.testcases])],
                           TaskPage)
    IN  [w1 EXCEPT !.status = IF w1.status = "running" THEN "done"
                              ELSE w1.status]

Running(w) == w.status = "running"

\* The assignments up to the second try block.
TaskBasics(w, arguments) ==
    TaskTimeLimit([w EXCEPT !.task.name = get_argument(arguments, "name", @),
                            !.task.title = get_argument(arguments, "title", @)],
                  arguments)

\* The testcases loop and the task_type block.
TaskTypeStep(w, arguments, time) ==
    IF Running(w)
    THEN TaskType([w EXCEPT !.testcases = PublishTestcases(@, arguments)],
                  arguments, time)
    ELSE w

\* task_type_parameters, score_type, score_parameters, submission_format.
TaskFormatStep(w, arguments, time) ==
    IF Running(w)
    THEN TaskFormat([w EXCEPT
                       !.task.task_type_parameters = Dumps(w.parameters),
                       !.task.score_type =
                           get_argument(arguments, "score_type", <<>>),
                       !.task.score_parameters =
                           get_argument(arguments, "score_parameters", <<>>)],
                    arguments, time)
    ELSE w

\* post after the task was found: the blocks in the order of the code, each
\* on the result of the one before it.
task_view_post(w, arguments, time) ==
    CHOOSE w5 \in
        {IF Running(w4) THEN TaskCommit(w4) ELSE w4 :
            w4 \in {TaskFormatStep(w3, arguments, time) :
                w3 \in {TaskTypeStep(w2, arguments, time) :
                    w2 \in {IF Running(w1)
                            THEN TaskInts(w1, arguments, TaskIntFields)
                            ELSE w1 :
                        w1 \in {TaskBasics(w, arguments)}}}}} : TRUE

NoTaskEdit ==
    [status |-> "idle", arguments |-> <<>>, task |-> StoredTask,
     parameters |-> <<>>, commits |-> <<>>, redirects |-> <<>>,
     raised |-> <<>>, written |-> <<>>, closed |-> FALSE]

TaskViewPost(form) ==
    /\ task_edit.status = "idle"
    /\ LET w0 == [status |-> "running", arguments |-> Sent(form),
                  task |-> task_edit.task, parameters |-> <<>>,
                  commits |-> <<>>, redirects |-> <<>>, raised |-> <<>>,
                  written |-> <<>>, closed |-> FALSE, testcases |-> testcases,
                  notifications |-> notifications, appended |-> appended]
       IN  \E w1 \in {task_view_post(w0, Sent(form), now)} :
               /\ task_edit' = [k \in DOMAIN NoTaskEdit |-> w1[k]]
               /\ notifications' = w1.notifications
               /\ appended' = w1.appended
               /\ testcases' = IF \E i \in 1..Len(w1.commits) : w1.commits[i].open
                               THEN w1.testcases
                               ELSE testcases
    /\ UNCHANGED <<now, questions, response, delivered, last_rpc, single,
                   last_int, reeval, contest_edit>>
    /\ UNCHANGED <<pc, public, successful_calls, calls, reports, redirects,
                   added, raised, stored>>

\* Task.get_from_id returned None: HTTPError(404).
TaskViewNotFound ==
    /\ task_edit.status = "idle"
    /\ task_edit' = [task_edit EXCEPT !.status = "notfound"]
    /\ UNCHANGED <<now, notifications, questions, response, appended,
                   delivered, last_rpc, single, last_int, reeval,
                   contest_edit>>
    /\ UNCHANGED uploadVars

(***************************************************************************)
(* DeleteTestcaseHandler.get and QuestionReplyHandler.post: the other      *)
(* handlers that change the Testcase and Question rows.                    *)
(***************************************************************************)
\* sql_session.delete(testcase); commit; redirect to the task page.  The
\* other rows keep their num.
DeleteTestcase(i) ==
    /\ i \in 1..Len(testcases)
    /\ testcases' = [k \in 1..(Len(testcases) - 1) |->
                        IF k < i THEN testcases[k] ELSE testcases[k + 1]]
    /\ UNCHANGED <<now, notifications, questions, response, appended,
                   delivered, last_rpc>>
    /\ UNCHANGED <<pc, public, successful_calls, calls, reports, redirects,
                   added, raised, stored>>
    /\ UNCHANGED otherVars

\* question.reply_timestamp = int(time.time()); commit; redirect(ref).
\* reply_subject and reply_text are columns no modelled handler reads.
QuestionReply(i) ==
    /\ i \in 1..Len(questions)
    /\ questions' = [questions EXCEPT ![i].reply_timestamp = <<now>>]
    /\ UNCHANGED <<now, notifications, response, appended, delivered,
                   last_rpc>>
    /\ UNCHANGED uploadVars
    /\ UNCHANGED otherVars

(***************************************************************************)
(* The clock, and the other handlers' add_notification calls.              *)
(***************************************************************************)
Tick ==
    /\ now < MaxTime
    /\ now' = now + 1
    /\ UNCHANGED <<notifications, questions, response, appended, delivered,
                   last_rpc>>
    /\ UNCHANGED otherVars
    /\ UNCHANGED uploadVars

AddNotification ==
    /\ Len(appended) < MaxAppends
    /\ LET w == Notify(World, now, OtherSubject, OtherText)
       IN  /\ notifications' = w.notifications
           /\ appended' = w.appended
    /\ UNCHANGED <<now, questions, response, delivered, last_rpc>>
    /\ UNCHANGED otherVars
    /\ UNCHANGED uploadVars

(***************************************************************************)
(* NotificationsHandler.get                                                *)
(***************************************************************************)
\* float(self.get_argument("last_notification", "0"))
LastNotification(arg) == IF arg = <<>> THEN 0 ELSE arg[1]

QuestionEntry(question) ==
    [type |-> "new_question", timestamp |-> question.question_timestamp,
     subject |-> question.subject, text |-> question.text]

NotificationEntry(notification) ==
    [type |-> "notification", timestamp |-> notification[1],
     subject |-> notification[2], text |-> notification[3]]

\* .filter(reply_timestamp == None).filter(question_timestamp > last)
Unanswered(qs, last_notification) ==
    SelectSeq(qs, LAMBDA question :
                     /\ question.reply_timestamp = <<>>
                     /\ question.question_timestamp > last_notification)

\* Mutant of Drained: the list is not cleared.
Drained_keep(q) == q

\* Mutant of Drained: the last notification is left in the list.
Drained_last(q) == IF q = <<>> THEN <<>> ELSE <<q[Len(q)]>>

\* self.application.service.notifications = []
Drained(q) == <<>>

\* Mutant of PollResult: last_notification filters the notifications too.
PollResult_since(qs, q, last_notification) ==
    LET new == Unanswered(qs, last_notification)
        late == SelectSeq(q, LAMBDA n : n[1] > last_notification)
    IN  [i \in 1..Len(new) |-> QuestionEntry(new[i])]
        \o [i \in 1..Len(late) |-> NotificationEntry(late[i])]

\* res after the two for loops
PollResult(qs, q, last_notification) ==
    LET new == Unanswered(qs, last_notification)
    IN  [i \in 1..Len(new) |-> QuestionEntry(new[i])]
        \o [i \in 1..Len(q) |-> NotificationEntry(q[i])]

IsNotificationEntry(entry) == entry.type = "notification"

EntryTuple(entry) == <<entry.timestamp, entry.subject, entry.text>>

\* The notification tuples among the entries of a response.
ReturnedNotifications(res) ==
    LET entries == SelectSeq(res, IsNotificationEntry)
    IN  [i \in 1..Len(entries) |-> EntryTuple(entries[i])]

Poll(arg) ==
    /\ Len(delivered) < MaxPolls
    /\ LET res == PollResult(questions, notifications, LastNotification(arg))
       IN  /\ response' = res
           /\ delivered' = Append(delivered, ReturnedNotifications(res))
    /\ notifications' = Drained(notifications)
    /\ UNCHANGED <<now, questions, appended, last_rpc>>
    /\ UNCHANGED otherVars
    /\ UNCHANGED uploadVars

\* add_notification called with a timestamp chosen by the caller.
AppendAt(timestamp) ==
    /\ Len(appended) < MaxQueued
    /\ LET w == Notify(World, timestamp, OtherSubject, OtherText)
       IN  /\ notifications' = w.notifications
           /\ appended' = w.appended
    /\ UNCHANGED <<now, questions, response, delivered, last_rpc>>
    /\ UNCHANGED otherVars
    /\ UNCHANGED uploadVars

(***************************************************************************)
(* AdminWebServer.authorized_rpc                                           *)
(***************************************************************************)
ServiceCoord(name, shard) == [name |-> name, shard |-> shard]

ServiceNames ==
    {"EvaluationService", "LogService", "ResourceService", "Evaluation"}

Services == {ServiceCoord(n, s) : n \in ServiceNames, s \in 0..MaxShard}

Methods ==
    {"submissions_status", "queue_status", "workers_status", "last_messages",
     "get_resources", "kill_service", "shutdown"}

Arguments == {<<>>, [shard |-> 0]}

\* Mutant of authorized_rpc: every method of a ResourceService is allowed.
authorized_rpc_open(service, method, arguments) ==
    \/ /\ service = ServiceCoord("EvaluationService", 0)
       /\ method \in {"submissions_status", "queue_status", "workers_status"}
    \/ /\ service = ServiceCoord("LogService", 0)
       /\ method = "last_messages"
    \/ service.name = "ResourceService"

\* Mutant of authorized_rpc: the decision depends on the pending
\* notifications.
authorized_rpc_stateful(service, method, arguments) ==
    /\ notifications = <<>>
    /\ \/ /\ service = ServiceCoord("EvaluationService", 0)
          /\ method \in {"submissions_status", "queue_status", "workers_status"}
       \/ /\ service = ServiceCoord("LogService", 0)
          /\ method = "last_messages"
       \/ /\ service.name = "ResourceService"
          /\ method \in {"get_resources", "kill_service"}

\* Mutant of authorized_rpc: the queue_status branch is missing.
authorized_rpc_noqueue(service, method, arguments) ==
    \/ /\ service = ServiceCoord("EvaluationService", 0)
       /\ method \in {"submissions_status", "workers_status"}
    \/ /\ service = ServiceCoord("LogService", 0)
       /\ method = "last_messages"
    \/ /\ service.name = "ResourceService"
       /\ method \in {"get_resources", "kill_service"}

\* Mutant of authorized_rpc: ResourceService is compared with its shard 0.
authorized_rpc_resource0(service, method, arguments) ==
    \/ /\ service = ServiceCoord("EvaluationService", 0)
       /\ method \in {"submissions_status", "queue_status", "workers_status"}
    \/ /\ service = ServiceCoord("LogService", 0)
       /\ method = "last_messages"
    \/ /\ service = ServiceCoord("ResourceService", 0)
       /\ method \in {"get_resources", "kill_service"}

authorized_rpc(service, method, arguments) ==
    IF /\ service = ServiceCoord("EvaluationService", 0)
       /\ method \in {"submissions_status", "queue_status", "workers_status"}
    THEN TRUE
    ELSE IF /\ service = ServiceCoord("LogService", 0)
            /\ method = "last_messages"
    THEN TRUE
    ELSE IF /\ service.name = "ResourceService"
            /\ method \in {"get_resources", "kill_service"}
    THEN TRUE
    ELSE FALSE

\* Nothing has happened on the server yet.
ServerQuiet == appended = <<>> /\ delivered = <<>> /\ pc = "idle"

\* Notifications are pending, a poll has drained the list before, and a
\* store call of an upload is in flight.
ServerBusy ==
    /\ notifications # <<>>
    /\ \E i \in 1..Len(delivered) : delivered[i] # <<>>
    /\ pc = "posted"
    /\ \E tag \in DOMAIN calls : calls[tag].status = "pending"

\* WebService asks the gate about an RPC requested by the browser.  The
\* record keeps the decision of this call (first) next to the decision of
\* the latest call with the same input (result), and whether the gate was
\* asked again while the server was busy.
AuthorizedRpc(service, method, arguments) ==
    /\ last_rpc' = [called |-> TRUE, service |-> service, method |-> method,
                    arguments |-> arguments,
                    result |-> authorized_rpc(service, method, arguments),
                    first |-> authorized_rpc(service, method, arguments),
                    quiet |-> ServerQuiet, busy |-> FALSE]
    /\ UNCHANGED <<now, notifications, questions, response, appended,
                   delivered>>
    /\ UNCHANGED uploadVars
    /\ UNCHANGED otherVars

\* The first call of a run, made before anything else has happened.
AuthorizedRpcFirst(service, method, arguments) ==
    /\ ServerQuiet
    /\ AuthorizedRpc(service, method, arguments)

\* WebService asks the gate again about the same RPC.
AuthorizedRpcAgain ==
    /\ last_rpc.called
    /\ last_rpc' = [last_rpc EXCEPT
                       !.result = authorized_rpc(last_rpc.service,
                                      last_rpc.method, last_rpc.arguments),
                       !.busy = @ \/ ServerBusy]
    /\ UNCHANGED <<now, notifications, questions, response, appended,
                   delivered>>
    /\ UNCHANGED uploadVars
    /\ UNCHANGED otherVars

(***************************************************************************)
(* storage_callback driven directly: any report, for any tag, any number   *)
(* of times (what a transport that redelivers, or a caller that passes an  *)
(* unexpected tag, hands to the handler).                                  *)
(***************************************************************************)
ReportTags == ExpectedTags \cup {"extra"}

ReportSuccess(tag, digest) ==
    /\ pc = "posted"
    /\ Len(reports) < MaxReports
    /\ reports' = Append(reports, [tag |-> tag, ok |-> TRUE])
    /\ Becomes(storage_callback(World, digest, tag, None, now))
    /\ UNCHANGED <<now, questions, response, delivered, pc, calls, stored,
                   last_rpc>>
    /\ UNCHANGED otherVars

ReportFailure(tag, error) ==
    /\ pc = "posted"
    /\ Len(reports) < MaxReports
    /\ reports' = Append(reports, [tag |-> tag, ok |-> FALSE])
    /\ Becomes(storage_callback(World, None, tag, error, now))
    /\ UNCHANGED <<now, questions, response, delivered, pc, calls, stored,
                   last_rpc>>
    /\ UNCHANGED otherVars

(***************************************************************************)
(* Specification of the server.                                            *)
(***************************************************************************)
QuestionTables ==
    { <<>>,
      <<[question_timestamp |-> 1, reply_timestamp |-> <<>>,
         subject |-> "q1", text |-> "t1"]>>,
      <<[question_timestamp |-> 1, reply_timestamp |-> <<>>,
         subject |-> "q1", text |-> "t1"],
        [question_timestamp |-> 2, reply_timestamp |-> <<2>>,
         subject |-> "q2", text |-> "t2"]>> }

NoCall == [called |-> FALSE]

NoUpload ==
    [kind |-> None, status |-> "idle", data |-> None, redirects |-> <<>>,
     raised |-> <<>>, committed |-> <<>>]

Init ==
    /\ now = 1
    /\ notifications = <<>>
    /\ questions \in QuestionTables
    /\ response = <<>>
    /\ appended = <<>>
    /\ delivered = <<>>
    /\ pc = "idle"
    /\ public = FALSE
    /\ successful_calls = <<>>
    /\ calls = [input |-> [status |-> "unsent", data |-> None],
                output |-> [status |-> "unsent", data |-> None]]
    /\ reports = <<>>
    /\ redirects = <<>>
    /\ testcases = <<>>
    /\ added = <<>>
    /\ raised = <<>>
    /\ stored = {}
    /\ last_rpc = NoCall
    /\ single = NoUpload
    /\ last_int = NoCall
    /\ reeval = NoReevaluation
    /\ contest_edit = NoContestEdit
    /\ task_edit = NoTaskEdit

Next ==
    \/ Tick
    \/ AddNotification
    \/ \E arg \in {<<>>} \cup {<<t>> : t \in 0..MaxTime} : Poll(arg)
    \/ \E pub \in BOOLEAN, si \in BOOLEAN, so \in BOOLEAN : Post(pub, si, so)
    \/ PostNotFound
    \/ \E tag \in ExpectedTags, d \in Digests : StoreSucceeds(tag, d)
    \/ \E tag \in ExpectedTags, e \in RpcErrors : StoreFails(tag, e)
    \/ \E i \in 1..Len(testcases) : DeleteTestcase(i)
    \/ \E i \in 1..Len(questions) : QuestionReply(i)

Spec == Init /\ [][Next]_vars

\* The gate, with the notification queue changing between its calls.
NextGate ==
    \/ AddNotification
    \/ \E arg \in {<<>>} : Poll(arg)
    \/ \E service \in Services, method \in Methods, arguments \in Arguments :
          AuthorizedRpc(service, method, arguments)

SpecGate == Init /\ [][NextGate]_vars

\* The gate asked before anything has happened, and asked again about the
\* same RPC while notifications are appended and drained and a testcase
\* upload is in flight.
NextPure ==
    \/ AddNotification
    \/ \E arg \in {<<>>} : Poll(arg)
    \/ \E si \in BOOLEAN, so \in BOOLEAN : Post(TRUE, si, so)
    \/ \E tag \in ExpectedTags, d \in Digests : StoreSucceeds(tag, d)
    \/ \E tag \in ExpectedTags, e \in RpcErrors : StoreFails(tag, e)
    \/ \E service \in Services, method \in Methods, arguments \in Arguments :
          AuthorizedRpcFirst(service, method, arguments)
    \/ AuthorizedRpcAgain

InitPure == Init /\ questions = <<>>

SpecPure == InitPure /\ [][NextPure]_vars

\* The notification queue alone: appends with any timestamps, and polls.
NextQueue ==
    \/ \E timestamp \in 1..MaxQueued : AppendAt(timestamp)
    \/ \E arg \in {<<>>} : Poll(arg)

SpecQueue == Init /\ [][NextQueue]_vars

\* The four upload handlers and the poll.
NextUploads ==
    \/ \E kind \in Kinds, filename \in Filenames, sent \in BOOLEAN :
          PostSingle(kind, filename, sent)
    \/ \E kind \in Kinds : PostSingleNotFound(kind)
    \/ \E d \in Digests : SingleSucceeds(d)
    \/ \E e \in RpcErrors : SingleFails(e)
    \/ \E si \in BOOLEAN, so \in BOOLEAN : Post(TRUE, si, so)
    \/ \E tag \in ExpectedTags, d \in Digests : StoreSucceeds(tag, d)
    \/ \E tag \in ExpectedTags, e \in RpcErrors : StoreFails(tag, e)
    \/ \E arg \in {<<>>} : Poll(arg)

SpecUploads == Init /\ [][NextUploads]_vars

\* The uploads, with store calls that may get no response.
NextChannel ==
    \/ \E si \in BOOLEAN, so \in BOOLEAN : Post(TRUE, si, so)
    \/ \E tag \in ExpectedTags, d \in Digests : StoreSucceeds(tag, d)
    \/ \E tag \in ExpectedTags, e \in RpcErrors : StoreFails(tag, e)
    \/ \E tag \in ExpectedTags : NoResponse(tag)
    \/ \E kind \in Kinds, filename \in Filenames, sent \in BOOLEAN :
          PostSingle(kind, filename, sent)
    \/ \E d \in Digests : SingleSucceeds(d)
    \/ \E e \in RpcErrors : SingleFails(e)

\* The response to a call, once the storage service has sent one, is handed
\* to storage_callback.
Respond(tag) ==
    \/ \E d \in Digests : StoreSucceeds(tag, d)
    \/ \E e \in RpcErrors : StoreFails(tag, e)

\* tornado's IOLoop runs the callback of every response that arrives; a
\* call that gets no response stays outstanding.
SpecChannel ==
    /\ Init
    /\ [][NextChannel]_vars
    /\ \A tag \in ExpectedTags : WF_vars(Respond(tag))

\* One call of get_non_negative_int with any request, default and flag.
NextInt ==
    \E arguments \in Requests, default \in Defaults, allow_empty \in BOOLEAN :
        GetNonNegativeInt(arguments, default, allow_empty)

SpecInt == Init /\ [][NextInt]_vars

\* The reevaluation requests.
NextReevaluate ==
    \/ \E handler \in {"submission", "user", "task"} :
          ReevaluationNotFound(handler)
    \/ \E id \in SubmissionIds : SubmissionReevaluate(id)
    \/ \E subs \in SubmissionLists : UserReevaluate(subs)
    \/ \E subs \in SubmissionLists : TaskReevaluate(subs)

SpecReevaluate == Init /\ [][NextReevaluate]_vars

\* One EditContestHandler request, at any time.
NextContest ==
    \/ Tick
    \/ \E form \in ContestForms : EditContestPost(form)
    \/ EditContestNotFound

SpecContest == Init /\ [][NextContest]_vars

\* One TaskViewHandler.post request, on a task with or without a testcase.
NextTask ==
    \/ \E pub \in BOOLEAN : Post(pub, TRUE, TRUE)
    \/ \E tag \in ExpectedTags, d \in Digests : StoreSucceeds(tag, d)
    \/ \E form \in TaskForms : TaskViewPost(form)
    \/ TaskViewNotFound

SpecTask == Init /\ [][NextTask]_vars

\* One upload request whose storage_callback receives arbitrary reports.
NextReports ==
    \/ \E pub \in BOOLEAN : Post(pub, TRUE, TRUE)
    \/ \E tag \in ReportTags, d \in Digests : ReportSuccess(tag, d)
    \/ \E tag \in ReportTags, e \in RpcErrors : ReportFailure(tag, e)
    \/ \E arg \in {<<>>} : Poll(arg)

SpecReports == Init /\ [][NextReports]_vars

(***************************************************************************)
(* State functions used by the properties.                                 *)
(***************************************************************************)
Reported(tag, ok) == \E i \in 1..Len(reports) : reports[i] = [tag |-> tag, ok |-> ok]

AnyFailure == \E i \in 1..Len(reports) : ~reports[i].ok

\* Firings of the success action: commits, and redirects to the task page.
SuccessCommits == Len(added)

SuccessRedirects == Count(redirects, TaskPage)

\* Firings of the failure action: notifications, and redirects to the form.
FailureNotes ==
    Cardinality({i \in 1..Len(appended) : appended[i].n[2] = TestcaseFailedSubject})

FailureRedirects == Count(redirects, AddTestcasePage)

Terminal == redirects # <<>>

AllowList ==
    {<<"EvaluationService", "submissions_status">>,
     <<"EvaluationService", "queue_status">>,
     <<"EvaluationService", "workers_status">>,
     <<"LogService", "last_messages">>,
     <<"ResourceService", "get_resources">>,
     <<"ResourceService", "kill_service">>}

\* The notification tuples appended while `epoch` polls had completed.
AppendedAt(epoch) ==
    LET then == SelectSeq(appended, LAMBDA a : a.epoch = epoch)
    IN  [i \in 1..Len(then) |-> then[i].n]

(***************************************************************************)
(* C1: in a two-part testcase upload the success action (commit of the     *)
(* Testcase, redirect to the task page) has fired if and only if both the  *)
(* input and the output store call reported success, and it fires at most  *)
(* once, whichever success arrives first.                                  *)
(***************************************************************************)
C1_SuccessIffAllTags ==
    /\ SuccessCommits <= 1
    /\ SuccessRedirects = SuccessCommits
    /\ (SuccessCommits = 1) <=> (\A tag \in ExpectedTags : Reported(tag, TRUE))

C1_Witness ==
    /\ SuccessCommits = 1
    /\ reports = <<[tag |-> "output", ok |-> TRUE], [tag |-> "input", ok |-> TRUE]>>

(***************************************************************************)
(* C2: whenever at least one of the two store calls has failed, the        *)
(* failure action (one "Testcase storage failed" notification, one         *)
(* redirect to the add_testcase page) has fired exactly once and the       *)
(* success action has not fired.                                           *)
(***************************************************************************)
C2_FailureExactlyOnce ==
    AnyFailure =>
        /\ FailureNotes = 1
        /\ FailureRedirects = 1
        /\ SuccessCommits = 0
        /\ SuccessRedirects = 0

(***************************************************************************)
(* C3: once the session is terminal (an action has fired and redirected),  *)
(* no later report changes anything: no further redirect, commit or        *)
(* failure notification.                                                   *)
(***************************************************************************)
C3_TerminalNoOp ==
    [][Terminal => /\ redirects' = redirects
                   /\ added' = added
                   /\ FailureNotes' = FailureNotes]_vars

(***************************************************************************)
(* C4: a Testcase row exists only when both store calls were confirmed     *)
(* stored; if a part failed nothing is committed; every part that was      *)
(* stored stays in the storage.                                            *)
(***************************************************************************)
C4_NoPartialCommit ==
    /\ \A i \in 1..Len(added) :
          /\ \A tag \in ExpectedTags : calls[tag].status = "ok"
          /\ added[i].input \in stored
          /\ added[i].output \in stored
    /\ AnyFailure => added = <<>>
    /\ \A tag \in ExpectedTags :
          calls[tag].status = "ok" => calls[tag].data \in stored

C4_Witness ==
    /\ calls["input"].status = "ok"
    /\ calls["output"].status = "error"
    /\ calls["input"].data \in stored
    /\ added = <<>>
    /\ Terminal

(***************************************************************************)
(* C5: the committed Testcase has as input the digest returned for tag     *)
(* "input" and as output the digest returned for tag "output", whichever   *)
(* store call completed first.                                             *)
(***************************************************************************)
C5_FullMapping ==
    \A i \in 1..Len(added) :
        /\ added[i].input = calls["input"].data
        /\ added[i].output = calls["output"].data
        /\ successful_calls = [input |-> calls["input"].data,
                               output |-> calls["output"].data]

C5_Witness ==
    /\ Len(added) = 1
    /\ reports[1].tag = "output"
    /\ calls["input"].data = "d1"
    /\ calls["output"].data = "d2"

(***************************************************************************)
(* C6: a success report for a tag outside {"input", "output"} is never     *)
(* recorded in successful_calls (and so never counts towards completion).  *)
(***************************************************************************)
C6_UnexpectedTagRejected == DOMAIN successful_calls \subseteq ExpectedTags

(***************************************************************************)
(* C7 (as stated): the gate's decision is True exactly when the pair       *)
(* (service name, method) is in the allow-list.                            *)
(***************************************************************************)
C7_AllowListByName ==
    last_rpc.called =>
        (last_rpc.result <=> <<last_rpc.service.name, last_rpc.method>> \in AllowList)

(***************************************************************************)
(* C7 (amended): the gate's decision is True exactly when the pair         *)
(* (service name, method) is in the allow-list and, for EvaluationService  *)
(* and LogService, the shard is 0; it is False for everything else,        *)
(* whatever the arguments.                                                 *)
(***************************************************************************)
C7_AllowListShardZero ==
    last_rpc.called =>
        (last_rpc.result <=>
            /\ <<last_rpc.service.name, last_rpc.method>> \in AllowList
            /\ last_rpc.service.name \in {"EvaluationService", "LogService"}
                  => last_rpc.service.shard = 0)

C7_Witness ==
    /\ last_rpc.called
    /\ last_rpc.service = ServiceCoord("EvaluationService", 1)
    /\ last_rpc.method = "workers_status"
    /\ last_rpc.arguments # <<>>
    /\ ~last_rpc.result

C9_ScenarioEvaluation ==
    (last_rpc.called /\ last_rpc.service = ServiceCoord("Evaluation", 0)) =>
        /\ last_rpc.method = "queue_status" => last_rpc.result
        /\ last_rpc.method = "shutdown" => ~last_rpc.result

(***************************************************************************)
(* C9 (amended): for the service ("EvaluationService", 0) the gate allows  *)
(* queue_status and denies shutdown.                                       *)
(***************************************************************************)
C9_ScenarioEvaluationService ==
    (last_rpc.called /\ last_rpc.service = ServiceCoord("EvaluationService", 0)) =>
        /\ last_rpc.method = "queue_status" => last_rpc.result
        /\ last_rpc.method = "shutdown" => ~last_rpc.result

C9_Witness ==
    /\ last_rpc.called
    /\ last_rpc.service = ServiceCoord("EvaluationService", 0)
    /\ last_rpc.method = "queue_status"
    /\ last_rpc.result

(***************************************************************************)
(* C10: every notification is returned by exactly one poll, the first one  *)
(* after it was appended: the k-th poll returned exactly the notifications *)
(* appended between the (k-1)-th and the k-th poll, and the list holds     *)
(* exactly those appended since the last poll.                             *)
(***************************************************************************)
C10_ExactlyOnce ==
    /\ \A k \in 1..Len(delivered) : delivered[k] = AppendedAt(k - 1)
    /\ notifications = AppendedAt(Len(delivered))

C10_Witness ==
    /\ Len(delivered) = 2
    /\ delivered[1] # <<>>
    /\ delivered[2] # <<>>
    /\ notifications # <<>>

(***************************************************************************)
(* State functions of the notification queue.                              *)
(***************************************************************************)
RECURSIVE Flatten(_)
Flatten(ss) == IF ss = <<>> THEN <<>> ELSE Head(ss) \o Flatten(Tail(ss))

Stamps(ns) == [i \in 1..Len(ns) |-> ns[i][1]]

AppendLog == [i \in 1..Len(appended) |-> appended[i].n]

\* A step of NotificationsHandler.get.
PollStep == Len(delivered') = Len(delivered) + 1

LastDelivered == delivered[Len(delivered)]

(***************************************************************************)
(* C11: drains return the notifications in append order: the results of    *)
(* all polls so far, one after the other, followed by the pending list,    *)
(* are the appended notifications in the order of their appends; when      *)
(* timestamps 1,2,3 were appended before the first poll it returned        *)
(* [1,2,3], and when only 4 was appended before the second it returned [4].*)
(***************************************************************************)
C11_Fifo ==
    /\ Flatten(delivered) \o notifications = AppendLog
    /\ (Len(delivered) >= 1 /\ Stamps(AppendedAt(0)) = <<1, 2, 3>>)
          => Stamps(delivered[1]) = <<1, 2, 3>>
    /\ (Len(delivered) >= 2 /\ Stamps(AppendedAt(1)) = <<4>>)
          => Stamps(delivered[2]) = <<4>>

C11_Witness ==
    /\ Len(delivered) = 2
    /\ Stamps(delivered[1]) = <<1, 2, 3>>
    /\ Stamps(delivered[2]) = <<4>>
    /\ notifications = <<>>

(***************************************************************************)
(* C12: every poll leaves the notification list empty and returns          *)
(* notification entries exactly when some were pending; so a poll that     *)
(* directly follows a poll, with no append in between, returns none.       *)
(***************************************************************************)
C12_EmptyAfterDrain ==
    [][PollStep =>
          /\ notifications' = <<>>
          /\ (delivered'[Len(delivered')] # <<>>) <=> (notifications # <<>>)
          /\ (Len(delivered) >= 1 /\ AppendedAt(Len(delivered)) = <<>>)
                => delivered'[Len(delivered')] = <<>>]_vars

C12_Witness ==
    /\ Len(delivered) = 2
    /\ delivered[1] # <<>>
    /\ delivered[2] = <<>>
    /\ AppendedAt(1) = <<>>

(***************************************************************************)
(* C13: whatever last_notification is, a poll returns every queued         *)
(* notification, in order, and clears the whole list; the argument only    *)
(* selects the new_question entries of the response.                       *)
(***************************************************************************)
C13_SinceFiltersQuestionsOnly ==
    [][PollStep =>
          /\ ReturnedNotifications(response') = notifications
          /\ notifications' = <<>>
          /\ \E arg \in {<<>>} \cup {<<t>> : t \in 0..MaxTime} :
                SelectSeq(response', LAMBDA e : ~IsNotificationEntry(e))
                  = [i \in 1..Len(Unanswered(questions, LastNotification(arg)))
                       |-> QuestionEntry(Unanswered(questions,
                                           LastNotification(arg))[i])]]_vars

\* An unanswered question was filtered out by last_notification while a
\* notification with a timestamp not above it was returned.
C13_Witness ==
    /\ Len(delivered) >= 1
    /\ \E i \in 1..Len(questions) : questions[i].reply_timestamp = <<>>
    /\ \A i \in 1..Len(response) : IsNotificationEntry(response[i])
    /\ \E i \in 1..Len(response) : response[i].timestamp = 1

(***************************************************************************)
(* State functions of the single-file uploads.                             *)
(***************************************************************************)
SingleFailedSubjects ==
    {"Task statement storage failed", "Attachment storage failed",
     "Manager storage failed"}

SingleNotes ==
    {i \in 1..Len(appended) : appended[i].n[2] \in SingleFailedSubjects}

\* The form each handler is posted from (the handlers table).
UploadForm(kind) ==
    CASE kind = "statement" -> "/add_statement/1"
      [] kind = "attachment" -> "/add_attachment/1"
      [] kind = "manager" -> "/add_manager/1"

\* appended[i] is pending, or was returned by the first poll after it and
\* by no other.
ReturnedByNextPoll(i) ==
    LET a == appended[i]
    IN  /\ Len(delivered) = a.epoch =>
              Count(notifications, a.n) = Count(AppendedAt(a.epoch), a.n)
        /\ \A k \in 1..Len(delivered) :
              Count(delivered[k], a.n) =
                  IF k = a.epoch + 1 THEN Count(AppendedAt(a.epoch), a.n)
                  ELSE Count(AppendedAt(k - 1), a.n)

(***************************************************************************)
(* C14: when put_file returns False, storage_callback runs with the error  *)
(* "Connection failed.": one failure notification is appended, the request *)
(* is redirected back to the form it was posted from, nothing is           *)
(* committed and no exception is raised; for the statement, attachment,    *)
(* manager and testcase handlers.                                          *)
(***************************************************************************)
C14_SyncFailureSamePath ==
    /\ single.status = "refused" =>
          /\ \E i \in SingleNotes : appended[i].n[3] = ConnectionFailed
          /\ single.redirects = <<UploadForm(single.kind)>>
          /\ single.committed = <<>>
          /\ single.raised = <<>>
    /\ (\E tag \in ExpectedTags : calls[tag].status = "refused") =>
          /\ \E i \in 1..Len(appended) :
                appended[i].n[2] = TestcaseFailedSubject
                /\ appended[i].n[3] = ConnectionFailed
          /\ \E i \in 1..Len(redirects) : redirects[i] = AddTestcasePage
          /\ added = <<>>
          /\ raised = <<>>

(***************************************************************************)
(* C20: when the store call of a statement, attachment or manager upload   *)
(* has completed, either the returned digest was committed and no failure  *)
(* notification was appended, or one failure notification was appended and *)
(* nothing was committed; exactly one redirect was issued; and the         *)
(* notification is returned by the first poll after it, and only by it.    *)
(***************************************************************************)
C20_CommitOrNotify ==
    single.status \in {"ok", "error", "refused"} =>
        /\ Len(single.redirects) = 1
        /\ single.status = "ok" =>
              /\ single.committed = <<[kind |-> single.kind, digest |-> single.data]>>
              /\ single.data \in Digests
              /\ SingleNotes = {}
        /\ single.status # "ok" =>
              /\ single.committed = <<>>
              /\ Cardinality(SingleNotes) = 1
        /\ \A i \in SingleNotes : ReturnedByNextPoll(i)

C20_Witness ==
    /\ single.kind = "attachment"
    /\ single.status = "error"
    /\ Len(delivered) = 2
    /\ \E i \in SingleNotes : appended[i].epoch = 1 /\ delivered[2] = <<appended[i].n>>

(***************************************************************************)
(* State functions of the store calls.                                     *)
(***************************************************************************)
\* The call has completed: it was refused, or its response was reported.
Answered(tag) == calls[tag].status \in {"ok", "error", "refused"}

Invocations(tag) ==
    Cardinality({i \in 1..Len(reports) : reports[i].tag = tag})

\* The redirects that went out: self.redirect calls that did not raise.
RedirectsIssued == Len(redirects) - Count(raised, "Exception")

(***************************************************************************)
(* C15: storage_callback is invoked exactly once for every store call that *)
(* has completed and not at all for a call still outstanding, and each     *)
(* invocation carries the tag of its call, with the result on success and  *)
(* with an error description on failure.                                   *)
(***************************************************************************)
C15_CallbackOncePerCall ==
    pc = "posted" =>
        /\ Len(reports) = Cardinality({tag \in ExpectedTags : Answered(tag)})
        /\ \A tag \in ExpectedTags :
              /\ Invocations(tag) = IF Answered(tag) THEN 1 ELSE 0
              /\ \A i \in 1..Len(reports) :
                    reports[i].tag = tag =>
                        (reports[i].ok <=> calls[tag].status = "ok")

(***************************************************************************)
(* C16: every testcase upload session that was begun eventually becomes    *)
(* terminal (the request is answered), also when one of its store calls    *)
(* never gets a response.                                                  *)
(***************************************************************************)
C16_NoSessionHangs == (pc = "posted") ~> Terminal

(***************************************************************************)
(* C17: no sequence of success and failure deliveries to the testcase      *)
(* upload's storage_callback raises an exception, and every session in     *)
(* which a part failed has a failure notification.                         *)
(***************************************************************************)
C17_NoUnhandledAbort ==
    /\ raised = <<>>
    /\ AnyFailure => FailureNotes >= 1

(***************************************************************************)
(* C19: once both store calls of one AddTestcaseHandler.post request have  *)
(* completed, whatever their outcomes and order, the request has been      *)
(* answered exactly once: exactly one redirect went out, never none and    *)
(* never two (a redirect call on the answered request raises and sends     *)
(* nothing).                                                               *)
(***************************************************************************)
C19_OneRedirectPerRequest ==
    (pc = "posted" /\ \A tag \in ExpectedTags : Answered(tag)) =>
        RedirectsIssued = 1

C19_Witness ==
    /\ pc = "posted"
    /\ \A tag \in ExpectedTags : calls[tag].status = "error"
    /\ Len(redirects) = 2
    /\ raised = <<"Exception">>
    /\ RedirectsIssued = 1

(***************************************************************************)
(* State functions of the last get_non_negative_int call.                  *)
(***************************************************************************)
Missing == DOMAIN last_int.arguments = {}

\* The string the function checks.
Checked ==
    IF Missing THEN Repr(last_int.default)
    ELSE last_int.arguments["token_initial"]

EmptyValue == Checked = <<>> \/ Checked = NoneString

ReturnedNone ==
    last_int.result.outcome = "return" /\ last_int.result.value.none

ReturnedInt ==
    last_int.result.outcome = "return" /\ ~last_int.result.value.none

(***************************************************************************)
(* C18 as stated: get_non_negative_int returns the default when the        *)
(* argument is missing; it returns None only when allow_empty is true and  *)
(* the value is empty; otherwise it returns an integer >= 0 or raises      *)
(* ValueError, and it never returns a negative integer.                    *)
(***************************************************************************)
C18_MissingReturnsDefault ==
    last_int.called =>
        /\ Missing => last_int.result = Returns(last_int.default)
        /\ ReturnedNone => (last_int.allow_empty /\ EmptyValue)
        /\ ReturnedInt => last_int.result.value.int >= 0

(***************************************************************************)
(* C18 amended: a missing argument is replaced by repr(default) and        *)
(* checked like a sent value, so the default is returned unless it is None *)
(* with allow_empty false, or a negative integer, and for these ValueError *)
(* is raised.  None is                                                     *)
(* returned exactly when allow_empty is true and the value is "" or        *)
(* "None"; otherwise the value of an integer literal >= 0 is returned, and *)
(* ValueError is raised for every other value; a negative integer is never *)
(* returned.                                                               *)
(***************************************************************************)
C18_DefaultIsChecked ==
    last_int.called =>
        /\ ReturnedNone <=> (last_int.allow_empty /\ EmptyValue)
        /\ ReturnedInt <=>
              /\ ~(last_int.allow_empty /\ EmptyValue)
              /\ IsIntLiteral(Checked)
              /\ IntOf(Checked) >= 0
        /\ ReturnedInt =>
              /\ last_int.result.value.int = IntOf(Checked)
              /\ last_int.result.value.int >= 0
        /\ ~ReturnedNone /\ ~ReturnedInt => last_int.result = Raises("ValueError")
        /\ Missing =>
              IF \/ last_int.default.none /\ ~last_int.allow_empty
                 \/ ~last_int.default.none /\ last_int.default.int < 0
              THEN last_int.result = Raises("ValueError")
              ELSE last_int.result = Returns(last_int.default)

C18_Witness ==
    /\ last_int.called
    /\ Missing
    /\ last_int.default = NoneValue
    /\ ~last_int.allow_empty
    /\ last_int.result = Raises("ValueError")

(***************************************************************************)
(* C21: the gate's decision depends on the shard only for                  *)
(* EvaluationService and LogService: their allow-listed methods are        *)
(* granted for shard 0 and denied for every other shard, while             *)
(* ResourceService's get_resources and kill_service are granted for every  *)
(* shard, and for every other service name the decision is the same        *)
(* (a denial) on every shard.                                              *)
(***************************************************************************)
C21_ShardOnlyForEvaluationAndLog ==
    last_rpc.called =>
        LET name == last_rpc.service.name
            listed == <<name, last_rpc.method>> \in AllowList
        IN  /\ (name \in {"EvaluationService", "LogService"} /\ listed) =>
                  (last_rpc.result <=> last_rpc.service.shard = 0)
            /\ (name = "ResourceService"
                  /\ last_rpc.method \in {"get_resources", "kill_service"}) =>
                  last_rpc.result
            /\ name \notin {"EvaluationService", "LogService"} =>
                  (last_rpc.result <=> listed)

C21_Witness ==
    /\ last_rpc.called
    /\ last_rpc.service = ServiceCoord("ResourceService", 1)
    /\ last_rpc.method = "kill_service"
    /\ last_rpc.result

(***************************************************************************)
(* State functions of the last reevaluation request.                       *)
(***************************************************************************)
LogPositions(op, id) ==
    {i \in 1..Len(reeval.log) : reeval.log[i] = Event(op, id)}

Concerned == {reeval.subs[i] : i \in 1..Len(reeval.subs)}

(***************************************************************************)
(* C22: in a reevaluation request (submission, user, task), the            *)
(* new_submission RPC for a submission is issued only after that           *)
(* submission was invalidated and the invalidation committed, exactly one  *)
(* RPC is issued per submission concerned and none for any other, and the  *)
(* single redirect comes after all the RPCs.                               *)
(***************************************************************************)
C22_RpcAfterCommit ==
    reeval.status = "done" =>
        /\ \A id \in SubmissionIds :
              Cardinality(LogPositions("new_submission", id)) =
                  IF id \in Concerned THEN 1 ELSE 0
        /\ \A id \in Concerned : \A k \in LogPositions("new_submission", id) :
              \E i \in LogPositions("invalid", id) :
                  \E j \in LogPositions("commit", 0) : i < j /\ j < k
        /\ Concerned \subseteq reeval.invalid
        /\ reeval.dirty = {}
        /\ LogPositions("redirect", 0) = {Len(reeval.log)}
        /\ Len(reeval.redirects) = 1
        /\ reeval.raised = <<>>

C22_Witness ==
    /\ reeval.status = "done"
    /\ reeval.handler = "user"
    /\ reeval.subs = <<2, 1>>
    /\ reeval.requests = 2

(***************************************************************************)
(* State functions of the EditContestHandler request.                      *)
(***************************************************************************)
ContestNotes ==
    {i \in 1..Len(appended) :
        appended[i].n[2] \in {"No contest name specified",
                              "Invalid token field(s).", "Invalid date(s).",
                              "Contest ends before it starts"}}

(***************************************************************************)
(* C23: in EditContestHandler.post, whenever a validation fails (empty     *)
(* name, invalid token field, invalid date, start later than end) exactly  *)
(* one notification describing the failure is appended, one redirect is    *)
(* sent, no attribute of the contest is changed and nothing is committed;  *)
(* the contest is modified and committed only when all validations pass.   *)
(***************************************************************************)
C23_RejectedEditNotifiesOnce ==
    /\ contest_edit.failed # None =>
          /\ Cardinality(ContestNotes) = 1
          /\ Len(contest_edit.redirects) = 1
          /\ contest_edit.raised = <<>>
          /\ contest_edit.contest = StoredContest
          /\ contest_edit.commits = <<>>
    /\ (contest_edit.contest # StoredContest \/ contest_edit.commits # <<>>) =>
          (contest_edit.status = "done" /\ contest_edit.failed = None)

(***************************************************************************)
(* State functions of the TaskViewHandler.post request.                    *)
(***************************************************************************)
InvalidFieldNotes ==
    {i \in 1..Len(appended) : appended[i].n[2] = OtherSubject}

\* A commit made while the session of the request was still open.
TaskEditCommitted ==
    \E i \in 1..Len(task_edit.commits) : task_edit.commits[i].open

(***************************************************************************)
(* C24: in TaskViewHandler.post, whenever an "Invalid field" notification  *)
(* is appended, the edit of the task is not committed and exactly one      *)
(* redirect is sent for the request; the commit happens only on paths on   *)
(* which no such notification was appended.                                *)
(***************************************************************************)
C24_InvalidFieldNotCommitted ==
    /\ InvalidFieldNotes # {} =>
          /\ ~TaskEditCommitted
          /\ Len(task_edit.redirects) = 1
          /\ task_edit.raised = <<>>
    /\ task_edit.commits # <<>> => InvalidFieldNotes = {}

=============================================================================
